---- MODULE Spec2Model ----
(***************************************************************************)
(* A model of src/src/bezier_mirror.rs: the Bezier-curve mirror of the     *)
(* MirrorVerse ray tracer.                                                 *)
(*                                                                         *)
(* The program is a value (BezierMirror, a vector of control points), one  *)
(* constructor (from_json), three methods (calculate_point,                *)
(* calculate_tangent, reflect) and one free function                       *)
(* (binomial_coefficient).  Spec models a mirror being constructed from a  *)
(* JSON document and then called; SpecCombinatorics runs the loop of       *)
(* binomial_coefficient iteration by iteration.                            *)
(*                                                                         *)
(* f32 values are modelled as binary floating-point numbers m * 2^x with a *)
(* 24-bit significand (the exponent range is not modelled: no value of the *)
(* model comes near it).  Every arithmetic operation rounds its exact      *)
(* result to 24 bits, ties to even, as IEEE 754 does.                      *)
(***************************************************************************)
EXTENDS Integers, Sequences, FiniteSets

VARIABLES
    constructed,     \* whether from_json has returned a BezierMirror
    control_points,  \* BezierMirror::control_points of that mirror
    call,            \* the last call made: [op, arg]
    outcome,         \* how that call ended: "ok" (returned) or "panic"
    result,          \* the value it returned
    bn, bk,          \* binomial_coefficient: the arguments n and k
    bi, bresult,     \* binomial_coefficient: the loop variable i and `result`
    bpc              \* binomial_coefficient: the position in its body

vars == <<constructed, control_points, call, outcome, result, bn, bk, bi, bresult, bpc>>

mirrorVars == <<constructed, control_points, call, outcome, result>>

binomVars == <<bn, bk, bi, bresult, bpc>>

-----------------------------------------------------------------------------
(* Bounds of the model.                                                    *)

\* The longest control-point list a JSON document holds.
MaxPoints == 3

\* The parameters t are the multiples of 2^-TBits in [0, 1].
TBits == 1

\* binomial_coefficient is called with n and k in 0..MaxN.
MaxN == 6

\* crate::DIM, the dimension of every point and vector (fixed at compile time).
DIM == 2

\* The width of an f32 significand, in bits.
F32_MANTISSA_DIGITS == 24

-----------------------------------------------------------------------------
(* f32: the value m * 2^x, kept in the canonical form with m odd (or the   *)
(* value zero, m = 0 and x = 0), so that equal values are equal records.   *)

RECURSIVE Pow2(_)
Pow2(k) == IF k = 0 THEN 1 ELSE 2 * Pow2(k - 1)

Abs(i) == IF i < 0 THEN -i ELSE i

RECURSIVE Canon(_, _)
Canon(m, x) ==
    IF m = 0 THEN [m |-> 0, x |-> 0]
    ELSE IF m % 2 = 0 THEN Canon(m \div 2, x + 1)
    ELSE [m |-> m, x |-> x]

Real(m, x) == Canon(m, x)

Zero == Real(0, 0)

One == Real(1, 0)

Half == Real(1, -1)

\* The significands of f32 are the integers below 2^24.
SignificandLimit == Pow2(F32_MANTISSA_DIGITS)

\* The least s with a < 2^(24 + s): the low bits a 24-bit significand drops.
RECURSIVE ExcessBits(_)
ExcessBits(a) ==
    IF a < SignificandLimit THEN 0 ELSE 1 + ExcessBits(a \div 2)

\* Rounding of an exact value to f32: round to nearest, ties to even.
RoundF32(v) ==
    IF Abs(v.m) < SignificandLimit THEN v
    ELSE LET s == ExcessBits(Abs(v.m))
             q == Abs(v.m) \div Pow2(s)
             r == Abs(v.m) % Pow2(s)
             up == 2 * r > Pow2(s) \/ (2 * r = Pow2(s) /\ q % 2 = 1)
             n == IF up THEN q + 1 ELSE q
         IN  Canon(IF v.m < 0 THEN -n ELSE n, v.x + s)

\* The exact sum and product of two values.
ExactAdd(a, b) ==
    LET x == IF a.x < b.x THEN a.x ELSE b.x
    IN  Canon(a.m * Pow2(a.x - x) + b.m * Pow2(b.x - x), x)

ExactMul(a, b) == Canon(a.m * b.m, a.x + b.x)

Neg(a) == [m |-> -a.m, x |-> a.x]

\* The f32 operators +, -, * of the source.
FAdd(a, b) == RoundF32(ExactAdd(a, b))

FSub(a, b) == RoundF32(ExactAdd(a, Neg(b)))

FMul(a, b) == RoundF32(ExactMul(a, b))

\* `k as f32` for an unsigned integer k.
AsF32(k) == RoundF32(Real(k, 0))

\* f32::powi: the product of k factors x; x^0 = 1 for every x (0 too).
RECURSIVE powi(_, _)
\* A powi that takes every power of zero, 0^0 too, to be zero.
powiZeroBase(x, k) ==
    IF x = Zero THEN Zero
    ELSE IF k = 0 THEN One ELSE FMul(powi(x, k - 1), x)

powi(x, k) == IF k = 0 THEN One ELSE FMul(powi(x, k - 1), x)

-----------------------------------------------------------------------------
(* Points and vectors: sequences of DIM f32 values.                        *)

Dims == 1..DIM

\* Point::origin() and SVector::zeros().
origin == [j \in Dims |-> Zero]

VecAdd(u, v) == [j \in Dims |-> FAdd(u[j], v[j])]

VecSub(u, v) == [j \in Dims |-> FSub(u[j], v[j])]

VecScale(c, v) == [j \in Dims |-> FMul(c, v[j])]

\* The squared length of v: the sum of the squares of its components.
RECURSIVE SumSquares(_, _)
SumSquares(v, j) ==
    IF j = 0 THEN Zero ELSE FAdd(SumSquares(v, j - 1), FMul(v[j], v[j]))

\* nalgebra's normalize(): v / sqrt(|v|^2).  A square root is not a binary
\* fraction, so the quotient is kept as the pair (dir, len_sq) that stands for
\* dir / sqrt(len_sq); when len_sq is zero every component is 0.0 / 0.0, NaN.
normalize(v) ==
    LET len_sq == SumSquares(v, DIM)
    IN  [nan |-> (len_sq = Zero), dir |-> v, len_sq |-> len_sq]

-----------------------------------------------------------------------------
(* binomial_coefficient.                                                    *)

\* The factor counted from 1: n - 1, n - 2, ... instead of n, n - 1, ...
BinomialMultiplyFromOne(r, n, i) == r * (n - (i + 1))

\* One iteration of the loop: result *= n - i; result /= i + 1.
BinomialMultiply(r, n, i) == r * (n - i)

BinomialDivide(r, i) == r \div (i + 1)

\* The loop `for i in 0..k` from iteration i on, `result` being r.
RECURSIVE BinomialLoop(_, _, _, _)
BinomialLoop(n, k, i, r) ==
    IF i >= k THEN r
    ELSE BinomialLoop(n, k, i + 1, BinomialDivide(BinomialMultiply(r, n, i), i))

binomial_coefficient(n, k) == IF k > n THEN 0 ELSE BinomialLoop(n, k, 0, 1)

-----------------------------------------------------------------------------
(* BezierMirror::calculate_point.  Rust indexes control_points from 0, the  *)
(* model from 1: the control point i of the source is cp[i + 1].            *)

\* The weight without its binomial coefficient.
bernsteinWithoutBinomial(n, i, t) == FMul(powi(t, i), powi(FSub(One, t), n - i))

\* binomial_coefficient(n, i) as f32 * t.powi(i) * (1.0 - t).powi(n - i)
bernstein_polynomial(n, i, t) ==
    FMul(FMul(AsF32(binomial_coefficient(n, i)), powi(t, i)),
         powi(FSub(One, t), n - i))

\* The loop over control_points from the control point i on, `point` being p.
RECURSIVE PointLoop(_, _, _, _)
PointLoop(cp, t, i, p) ==
    IF i >= Len(cp) THEN p
    ELSE PointLoop(cp, t, i + 1,
             VecAdd(p, VecScale(bernstein_polynomial(Len(cp) - 1, i, t), cp[i + 1])))

\* With no control point the loop body never runs and the degree is unused.
calculate_point(cp, t) == PointLoop(cp, t, 0, origin)

-----------------------------------------------------------------------------
(* BezierMirror::calculate_tangent.                                         *)

\* The weight of a difference vector without the factor n.
bernsteinDerivativeWithoutDegree(n, i, t) ==
    FMul(FMul(AsF32(binomial_coefficient(n - 1, i)), powi(t, i)),
         powi(FSub(One, t), n - 1 - i))

\* (n as f32) * binomial_coefficient(n - 1, i) as f32 * t.powi(i)
\*     * (1.0 - t).powi(n - 1 - i)
bernstein_derivative(n, i, t) ==
    FMul(FMul(FMul(AsF32(n), AsF32(binomial_coefficient(n - 1, i))), powi(t, i)),
         powi(FSub(One, t), n - 1 - i))

\* The loop `for i in 0..n` from iteration i on, `tangent` being v.
RECURSIVE TangentLoop(_, _, _, _)
TangentLoop(cp, t, i, v) ==
    IF i >= Len(cp) - 1 THEN v
    ELSE TangentLoop(cp, t, i + 1,
             VecAdd(v, VecScale(bernstein_derivative(Len(cp) - 1, i, t),
                                VecSub(cp[i + 2], cp[i + 1]))))

\* The vector `tangent` as it is before tangent.normalize().
RawTangent(cp, t) == TangentLoop(cp, t, 0, origin)

calculate_tangent(cp, t) == normalize(RawTangent(cp, t))

-----------------------------------------------------------------------------
(* impl Mirror for BezierMirror.                                            *)

\* reflect ignores the mirror and the ray: its body is `vec![]`.
reflect(cp, ray) == <<>>

get_type == "bezier"

-----------------------------------------------------------------------------
(* serde_json::Value, as far as from_json looks at it: null, a string, a    *)
(* number (an f64) or an array.  Every value has the same three fields.     *)

JNull == [kind |-> "null", num |-> Zero, items |-> <<>>]

JString == [kind |-> "string", num |-> Zero, items |-> <<>>]

JNumber(v) == [kind |-> "number", num |-> v, items |-> <<>>]

JArray(s) == [kind |-> "array", num |-> Zero, items |-> s]

\* Value::as_array and Value::as_f64 return None for a value of another kind.
IsArray(v) == v.kind = "array"

IsNumber(v) == v.kind = "number"

\* `value.as_f64().unwrap() as f32`: the f64 rounded to the nearest f32.
F64AsF32(v) == RoundF32(v)

\* The inner closure of from_json on one element of the list: the unwraps
\* panic on a non-array and on a non-number, and Point::from_slice panics on
\* a slice whose length is not DIM.
PointPanics(pv) ==
    \/ ~IsArray(pv)
    \/ \E j \in 1..Len(pv.items) : ~IsNumber(pv.items[j])
    \/ Len(pv.items) # DIM

\* The coordinates taken from the last to the first.
PointOfReversed(pv) == [j \in Dims |-> F64AsF32(pv.items[DIM + 1 - j].num)]

PointOf(pv) == [j \in Dims |-> F64AsF32(pv.items[j].num)]

\* from_json: json["control_points"] (Null when the key is missing), as_array,
\* and the map over its elements.  No length of the list is refused.
from_json(json) ==
    LET field == json.control_points
    IN  IF ~IsArray(field) THEN [outcome |-> "panic", control_points |-> <<>>]
        ELSE IF \E i \in 1..Len(field.items) : PointPanics(field.items[i])
        THEN [outcome |-> "panic", control_points |-> <<>>]
        ELSE [outcome |-> "ok",
              control_points |-> [i \in 1..Len(field.items) |-> PointOf(field.items[i])]]

-----------------------------------------------------------------------------
(* The inputs of the model.                                                 *)

SeqsUpTo(S, n) == UNION {[1..k -> S] : k \in 0..n}

\* The coordinates of the tests' control points.
Coords == {Zero, Half, One}

\* An f64 that is no f32: 1 + 2^-24 needs a 25-bit significand.
Inexact == Real(Pow2(F32_MANTISSA_DIGITS) + 1, -F32_MANTISSA_DIGITS)

ConstantPoint(v, len) == JArray([j \in 1..len |-> JNumber(v)])

\* A control point as the example JSON of the source gives it: DIM numbers.
GoodPoints ==
    {JArray([j \in Dims |-> JNumber(v[j])]) : v \in [Dims -> Coords]}
    \cup {ConstantPoint(Inexact, DIM)}

\* Not an array; one coordinate too few or too many; a coordinate that is a string.
BadPoints ==
    {JString, ConstantPoint(Zero, DIM - 1), ConstantPoint(Zero, DIM + 1)}
    \cup {JArray([j \in Dims |-> IF j = p THEN JString ELSE JNumber(Zero)]) : p \in Dims}

SamplePoints == {ConstantPoint(Zero, DIM), ConstantPoint(One, DIM)}

WellFormedLists == SeqsUpTo(GoodPoints, MaxPoints)

MalformedLists ==
    {l \in SeqsUpTo(SamplePoints \cup BadPoints, MaxPoints) :
        \E i \in 1..Len(l) : l[i] \in BadPoints}

JsonDocs ==
    {[control_points |-> JNull], [control_points |-> JString]}
    \cup {[control_points |-> JArray(l)] : l \in WellFormedLists \cup MalformedLists}

\* The parameters: k / 2^TBits for k in 0..2^TBits.
TGrid == {Real(k, -TBits) : k \in 0..Pow2(TBits)}

\* A Ray: an origin and a unit direction, here along an axis.
UnitVectors == {[j \in Dims |-> IF j = a THEN One ELSE Zero] : a \in Dims}

Rays == [origin : {[j \in Dims |-> Zero], [j \in Dims |-> Half]}, direction : UnitVectors]

-----------------------------------------------------------------------------
(* The state machine of a mirror: constructed once, then called.            *)

NoCall == [op |-> "none", arg |-> <<>>]

BinomIdle ==
    /\ bn = 0
    /\ bk = 0
    /\ bi = 0
    /\ bresult = 0
    /\ bpc = "idle"

Init ==
    /\ constructed = FALSE
    /\ control_points = <<>>
    /\ call = NoCall
    /\ outcome = "ok"
    /\ result = <<>>
    /\ BinomIdle

\* A panic unwinds the caller: nothing is called after it.
Alive == outcome # "panic"

\* The methods take &self and write nothing, so the mirror a method is called
\* on is the mirror as from_json returned it: a call made after another call
\* reaches the state that call reaches from here, and the model makes every
\* call from the state construction left.
Fresh == constructed /\ call.op = "from_json"

FromJson ==
    /\ Alive
    /\ ~constructed
    /\ \E json \in JsonDocs :
        /\ LET r == from_json(json)
           IN  /\ outcome' = r.outcome
               /\ constructed' = (r.outcome = "ok")
               /\ control_points' = r.control_points
        /\ call' = [op |-> "from_json", arg |-> json]
    /\ result' = <<>>
    /\ UNCHANGED binomVars

\* `self.control_points.len() - 1` overflows on an empty vector.  What rustc
\* makes of it depends on the build: with overflow checks (debug) the
\* subtraction panics (the first disjunct); without (release) it wraps, the
\* loop over the empty vector does nothing and Point::origin() is returned
\* (the second disjunct, which is also every call on a non-empty vector).
CalculatePoint ==
    /\ Alive
    /\ Fresh
    /\ \E t \in TGrid :
        /\ call' = [op |-> "calculate_point", arg |-> t]
        /\ \/ /\ Len(control_points) = 0
              /\ outcome' = "panic"
              /\ result' = <<>>
           \/ /\ outcome' = "ok"
              /\ result' = calculate_point(control_points, t)
    /\ UNCHANGED <<constructed, control_points>>
    /\ UNCHANGED binomVars

\* On an empty vector `len() - 1` panics (debug) or wraps to usize::MAX
\* (release); wrapped, the loop `0..n` runs and its first iteration indexes
\* control_points[1], out of bounds: a panic in either build.
CalculateTangent ==
    /\ Alive
    /\ Fresh
    /\ \E t \in TGrid :
        /\ call' = [op |-> "calculate_tangent", arg |-> t]
        /\ IF Len(control_points) = 0
           THEN outcome' = "panic" /\ result' = <<>>
           ELSE outcome' = "ok" /\ result' = calculate_tangent(control_points, t)
    /\ UNCHANGED <<constructed, control_points>>
    /\ UNCHANGED binomVars

Reflect ==
    /\ Alive
    /\ Fresh
    /\ \E ray \in Rays :
        /\ call' = [op |-> "reflect", arg |-> ray]
        /\ result' = reflect(control_points, ray)
    /\ outcome' = "ok"
    /\ UNCHANGED <<constructed, control_points>>
    /\ UNCHANGED binomVars

GetType ==
    /\ Alive
    /\ Fresh
    /\ call' = [op |-> "get_type", arg |-> <<>>]
    /\ outcome' = "ok"
    /\ result' = get_type
    /\ UNCHANGED <<constructed, control_points>>
    /\ UNCHANGED binomVars

Next ==
    \/ FromJson
    \/ CalculatePoint
    \/ CalculateTangent
    \/ Reflect
    \/ GetType

Spec == Init /\ [][Next]_vars

-----------------------------------------------------------------------------
(* binomial_coefficient(n, k), statement by statement.                      *)

MirrorIdle ==
    /\ constructed = FALSE
    /\ control_points = <<>>
    /\ call = NoCall
    /\ outcome = "ok"
    /\ result = <<>>

\* The call binomial_coefficient(bn, bk) is entered.
InitCombinatorics ==
    /\ MirrorIdle
    /\ bn \in 0..MaxN
    /\ bk \in 0..MaxN
    /\ bi = 0
    /\ bresult = 0
    /\ bpc = "entry"

\* if k > n { return 0; }
BinomialEarlyReturn ==
    /\ bpc = "entry"
    /\ bk > bn
    /\ bresult' = 0
    /\ bpc' = "done"
    /\ UNCHANGED <<bn, bk, bi>>
    /\ UNCHANGED mirrorVars

\* let mut result = 1; and the loop is entered with i = 0.
BinomialStart ==
    /\ bpc = "entry"
    /\ ~(bk > bn)
    /\ bresult' = 1
    /\ bi' = 0
    /\ bpc' = "multiply"
    /\ UNCHANGED <<bn, bk>>
    /\ UNCHANGED mirrorVars

\* result *= n - i;
BinomialMul ==
    /\ bpc = "multiply"
    /\ bi < bk
    /\ bresult' = BinomialMultiply(bresult, bn, bi)
    /\ bpc' = "divide"
    /\ UNCHANGED <<bn, bk, bi>>
    /\ UNCHANGED mirrorVars

\* result /= i + 1; and the next i.
BinomialDiv ==
    /\ bpc = "divide"
    /\ bresult' = BinomialDivide(bresult, bi)
    /\ bi' = bi + 1
    /\ bpc' = "multiply"
    /\ UNCHANGED <<bn, bk>>
    /\ UNCHANGED mirrorVars

\* The range 0..k is exhausted: result is returned.
BinomialReturn ==
    /\ bpc = "multiply"
    /\ bi >= bk
    /\ bpc' = "done"
    /\ UNCHANGED <<bn, bk, bi, bresult>>
    /\ UNCHANGED mirrorVars

NextCombinatorics ==
    \/ BinomialEarlyReturn
    \/ BinomialStart
    \/ BinomialMul
    \/ BinomialDiv
    \/ BinomialReturn

SpecCombinatorics == InitCombinatorics /\ [][NextCombinatorics]_vars

-----------------------------------------------------------------------------
(* Exact arithmetic and the mathematical definitions the properties compare *)
(* the program with.                                                        *)

\* a <= b, as real numbers.
LessEq(a, b) == ExactAdd(b, Neg(a)).m >= 0

AbsReal(a) == [m |-> Abs(a.m), x |-> a.x]

\* v is a value of f32: its significand fits 24 bits.
IsF32(v) == Abs(v.m) < SignificandLimit

\* r is v rounded to f32: an f32 within the relative error 2^-24 of v.
IsRounded(r, v) ==
    /\ IsF32(r)
    /\ LessEq(ExactMul(AbsReal(ExactAdd(r, Neg(v))), Real(SignificandLimit, 0)), AbsReal(v))

\* The binomial coefficient C(n, k) by Pascal's rule.
RECURSIVE Pascal(_, _)
Pascal(n, k) ==
    IF k > n THEN 0
    ELSE IF k = 0 THEN 1
    ELSE Pascal(n - 1, k - 1) + Pascal(n - 1, k)

\* (1 - t) * a + t * b, exactly.
Lerp(a, b, t) == ExactAdd(ExactMul(ExactAdd(One, Neg(t)), a), ExactMul(t, b))

\* De Casteljau's algorithm: repeated linear interpolation of neighbours.
RECURSIVE DeCasteljau(_, _)
DeCasteljau(cp, t) ==
    IF Len(cp) = 1 THEN cp[1]
    ELSE DeCasteljau([i \in 1..(Len(cp) - 1) |->
                         [j \in Dims |-> Lerp(cp[i][j], cp[i + 1][j], t)]], t)

\* The sum over i of C(n, i) * t^i * (1 - t)^(n - i) * cp[i], exactly.
RECURSIVE ExactPower(_, _)
ExactPower(x, k) == IF k = 0 THEN One ELSE ExactMul(ExactPower(x, k - 1), x)

RECURSIVE BernsteinSum(_, _, _, _)
BernsteinSum(cp, t, i, j) ==
    IF i < 0 THEN Zero
    ELSE ExactAdd(BernsteinSum(cp, t, i - 1, j),
             ExactMul(ExactMul(Real(Pascal(Len(cp) - 1, i), 0),
                               ExactMul(ExactPower(t, i),
                                        ExactPower(ExactAdd(One, Neg(t)), Len(cp) - 1 - i))),
                      cp[i + 1][j]))

\* The degree of the curve of the constructed mirror.
Degree == Len(control_points) - 1

\* json["control_points"] is a list of points of DIM numbers each.
WellFormed(json) ==
    /\ IsArray(json.control_points)
    /\ \A i \in 1..Len(json.control_points.items) :
          LET pv == json.control_points.items[i]
          IN  /\ IsArray(pv)
              /\ Len(pv.items) = DIM
              /\ \A j \in 1..Len(pv.items) : IsNumber(pv.items[j])

\* The control points of a mirror as JSON: each f32 widens to an f64 exactly.
Serialized(cp) ==
    [control_points |-> JArray([i \in 1..Len(cp) |-> JArray([j \in Dims |-> JNumber(cp[i][j])])])]

\* The distances along a ray at which the properties look for the curve.
Distances == {Zero, Half, One}

\* The ray meets the curve at a parameter of the grid, at a distance >= 0.
RayMeetsCurve(cp, ray) ==
    \E t \in TGrid, d \in Distances :
        VecAdd(ray.origin, VecScale(d, ray.direction)) = calculate_point(cp, t)

\* The polygon is its own mirror image in a hyperplane normal to the first
\* axis: P[n-i] is P[i] with the first coordinate reflected.
MirrorSymmetric(cp) ==
    \A i \in 1..Len(cp) :
        /\ ExactAdd(cp[i][1], cp[Len(cp) + 1 - i][1]) = ExactAdd(cp[1][1], cp[Len(cp)][1])
        /\ \A j \in 2..DIM : cp[i][j] = cp[Len(cp) + 1 - i][j]

\* 2 (v . a) a - v for the first axis a: the other components change sign.
ReflectedAboutFirstAxis(v) == [j \in Dims |-> IF j = 1 THEN v[j] ELSE Neg(v[j])]

-----------------------------------------------------------------------------
(* The properties.                                                          *)

\* C1: when the ray meets the curve at some t in [0,1] at a distance >= 0,
\* reflect returns one entry per intersection in ascending order of distance,
\* so at least one entry.
C1_ReflectFindsIntersections ==
    (call.op = "reflect" /\ Len(control_points) >= 2
        /\ RayMeetsCurve(control_points, call.arg))
    => /\ outcome = "ok"
       /\ Len(result) >= 1
       /\ \A i \in 1..(Len(result) - 1) : LessEq(result[i][1], result[i + 1][1])

\* C2: from_json rejects with MalformedInput every list of fewer than 2
\* control points, so every mirror it returns has at least 2.
C2_TooFewPointsRejected ==
    /\ (call.op = "from_json" /\ IsArray(call.arg.control_points)
           /\ Len(call.arg.control_points.items) < 2)
       => (outcome = "MalformedInput" /\ ~constructed)
    /\ constructed => Len(control_points) >= 2

\* C3: from_json on a document that is not a list of points of DIM numbers
\* each ends in the error MalformedInput returned to the caller, with no
\* mirror and without aborting.
C3_MalformedInputSurfaced ==
    (call.op = "from_json" /\ ~WellFormed(call.arg))
    => (outcome = "MalformedInput" /\ ~constructed)

\* C4: where the un-normalized derivative is exactly zero calculate_tangent
\* signals DegenerateTangent and returns no NaN.
C4_DegenerateTangentSignalled ==
    (call.op = "calculate_tangent" /\ Len(control_points) >= 2
        /\ RawTangent(control_points, call.arg) = origin)
    => (outcome = "DegenerateTangent" /\ result = <<>>)

\* C5: with at least 2 control points calculate_point(0) is the first control
\* point and calculate_point(1) the last, exactly: at t = 0 the weight of
\* control point 0 is 1 and every other is 0, at t = 1 that of control point n.
C5_EndpointsExact ==
    (call.op = "calculate_point" /\ outcome = "ok" /\ Len(control_points) >= 2)
    => /\ call.arg = Zero =>
            /\ result = control_points[1]
            /\ \A i \in 0..Degree :
                  bernstein_polynomial(Degree, i, Zero) = IF i = 0 THEN One ELSE Zero
       /\ call.arg = One =>
            /\ result = control_points[Len(control_points)]
            /\ \A i \in 0..Degree :
                  bernstein_polynomial(Degree, i, One) = IF i = Degree THEN One ELSE Zero

C5_Witness ==
    /\ call.op = "calculate_point"
    /\ outcome = "ok"
    /\ call.arg = One
    /\ Len(control_points) = 3
    /\ control_points[3] # control_points[1]
    /\ control_points[3] # control_points[2]
    /\ result = control_points[3]

\* C6: binomial_coefficient(n, k) is the binomial coefficient C(n, k): 0 for
\* k > n, 1 for k = 0 and k = n, the same for k and n - k; every division of
\* the loop is exact.
C6_BinomialIsPascal ==
    /\ bpc = "done" =>
          /\ bresult = Pascal(bn, bk)
          /\ bk > bn => bresult = 0
          /\ (bk = 0 \/ bk = bn) => bresult = 1
          /\ bk <= bn => bresult = binomial_coefficient(bn, bn - bk)
    /\ bpc = "divide" => bresult % (bi + 1) = 0

C6_Witness ==
    /\ bpc = "done"
    /\ bn = 4
    /\ bk = 2
    /\ bresult = 6

\* C7: with at least 2 control points calculate_point(t) is, coordinate by
\* coordinate, the Bernstein sum of the control points and the point de
\* Casteljau's interpolation gives; for 2 control points A and B it is
\* (A + B) / 2 at t = 1/2.
C7_PointIsBernsteinSum ==
    (call.op = "calculate_point" /\ outcome = "ok" /\ Len(control_points) >= 2)
    => /\ result = [j \in Dims |-> BernsteinSum(control_points, call.arg, Degree, j)]
       /\ result = DeCasteljau(control_points, call.arg)
       /\ (Len(control_points) = 2 /\ call.arg = Half) =>
             result = [j \in Dims |->
                          ExactMul(Half, ExactAdd(control_points[1][j], control_points[2][j]))]

\* The control points (0,0), (0.5,1), (1,0) at t = 1/2: the point (0.5,0.5).
C7_Witness ==
    /\ call.op = "calculate_point"
    /\ outcome = "ok"
    /\ call.arg = Half
    /\ control_points = << <<Zero, Zero>>, <<Half, One>>, <<One, Zero>> >>
    /\ result = <<Half, Half>>

C9_TangentAtEnds ==
    (call.op = "calculate_tangent" /\ outcome = "ok" /\ Len(control_points) >= 2)
    => /\ call.arg = Zero =>
            result.dir = [j \in Dims |->
                ExactMul(Real(Degree, 0),
                         ExactAdd(control_points[2][j], Neg(control_points[1][j])))]
       /\ call.arg = One =>
            result.dir = [j \in Dims |->
                ExactMul(Real(Degree, 0),
                         ExactAdd(control_points[Degree + 1][j], Neg(control_points[Degree][j])))]
       /\ (call.arg = Zero /\ MirrorSymmetric(control_points)) =>
            LET last == calculate_tangent(control_points, One)
            IN  result = [last EXCEPT !.dir = ReflectedAboutFirstAxis(last.dir)]

\* The test's polygon (0,0), (0.5,1), (1,0) at t = 0: the derivative (1,2).
C9_Witness ==
    /\ call.op = "calculate_tangent"
    /\ outcome = "ok"
    /\ call.arg = Zero
    /\ control_points = << <<Zero, Zero>>, <<Half, One>>, <<One, Zero>> >>
    /\ result.dir = <<One, Real(2, 0)>>
    /\ ~result.nan

\* C10: once from_json has returned a mirror, no call of calculate_point,
\* calculate_tangent or reflect panics.
C10_NoPanicAfterConstruction == constructed => outcome # "panic"

====
